---- MODULE Spec2Model ----
(***************************************************************************)
(* Skill Survey Bot (streamlit_app.py): the JSON datastore with its        *)
(* read-modify-write handlers (Admin create / delete, User submit), and    *)
(* the Dashboard's gap analysis and resume matching.                       *)
(*                                                                         *)
(* A Python dict is a function with a finite domain, a list is a sequence, *)
(* a str is a sequence of one-character tokens ("NL" is the newline,       *)
(* "Sigma" / "sigma" / "fsigma" are U+03A3, U+03C3 and U+03C2).            *)
(***************************************************************************)
EXTENDS Integers, Sequences, FiniteSets, TLC

\* ------------------------------------------------------------------ bounds
\* Longest free part of a resume text / total free characters of a corpus.
MaxBody == 3
\* Most skills of a survey shown on the Dashboard.
MaxSkills == 2
\* Most responses of the survey shown on the Dashboard.
MaxResponses == 2
\* Longest text typed in the Admin view's skills box.
MaxInputLen == 2
\* Most handler runs (create, delete, submit) started: the clock behind the
\* timestamps ticks once per run.
MaxClock == 3
\* Most button clicks of the single session run by run.
MaxRuns == 4

\* ------------------------------------------------------------ Python dicts
EmptyDict == [k \in {} |-> {}]

Put(d, k, v) == [x \in DOMAIN d \cup {k} |-> IF x = k THEN v ELSE d[x]]

Get(d, k, default) == IF k \in DOMAIN d THEN d[k] ELSE default

SetDefault(d, k, v) == IF k \in DOMAIN d THEN d ELSE Put(d, k, v)

Pop(d, k) == [x \in DOMAIN d \ {k} |-> d[x]]

\* ------------------------------------------------------------- Python strs
Whitespace == {" ", "NL"}

UpperChars == {"A", "S", "Sigma"}

LowerChars == {"a", "s", "k", "i", "l", "sigma", "fsigma"}

Cased == UpperChars \cup LowerChars

\* Unicode Case_Ignorable (Word_Break MidLetter / MidNumLet): ':' and '.'.
CaseIgnorable == {":", "."}

Strs(alphabet, n) == UNION {[1..k -> alphabet] : k \in 0..n}

\* p in t
IsSubstr(p, t) ==
    \E i \in 0..(Len(t) - Len(p)) : SubSeq(t, i + 1, i + Len(p)) = p

\* str.lower() of one character that is not U+03A3.
LowerChar(c) ==
    CASE c = "A" -> "a"
      [] c = "S" -> "s"
      [] OTHER -> c

\* CPython's handle_capital_sigma: U+03A3 lower-cases to the final sigma when
\* a cased character precedes it and none follows it, case-ignorable
\* characters skipped on both sides.
FinalSigma(str, i) ==
    /\ \E j \in 1..(i - 1) :
          /\ str[j] \in Cased
          /\ \A m \in (j + 1)..(i - 1) : str[m] \in CaseIgnorable
    /\ ~ \E j \in (i + 1)..Len(str) :
          /\ str[j] \in Cased
          /\ \A m \in (i + 1)..(j - 1) : str[m] \in CaseIgnorable

\* str.lower()
Lower(str) ==
    [i \in 1..Len(str) |->
        IF str[i] = "Sigma"
        THEN IF FinalSigma(str, i) THEN "fsigma" ELSE "sigma"
        ELSE LowerChar(str[i])]

RECURSIVE LStrip(_, _)
LStrip(str, chars) ==
    IF str # <<>> /\ Head(str) \in chars THEN LStrip(Tail(str), chars) ELSE str

RECURSIVE RStrip(_, _)
RStrip(str, chars) ==
    IF str # <<>> /\ str[Len(str)] \in chars
    THEN RStrip(SubSeq(str, 1, Len(str) - 1), chars)
    ELSE str

\* str.strip(chars); str.strip() is Strip(str, Whitespace)
Strip(str, chars) == RStrip(LStrip(str, chars), chars)

\* str.split(sep) for a one-character sep: the pieces between the separators,
\* empty pieces kept.
RECURSIVE SplitAcc(_, _, _)
SplitAcc(str, seps, cur) ==
    IF str = <<>> THEN <<cur>>
    ELSE IF Head(str) \in seps
         THEN <<cur>> \o SplitAcc(Tail(str), seps, <<>>)
         ELSE SplitAcc(Tail(str), seps, Append(cur, Head(str)))

Split(str, sep) == SplitAcc(str, {sep}, <<>>)

\* str.split(): the runs between whitespace, no empty piece.
SplitWords(str) == SelectSeq(SplitAcc(str, Whitespace, <<>>), LAMBDA w : w # <<>>)

\* str.splitlines(): no line for the empty text, none after a final newline.
SplitLines(str) ==
    LET pieces == SplitAcc(str, {"NL"}, <<>>)
    IN  IF pieces[Len(pieces)] = <<>>
        THEN SubSeq(pieces, 1, Len(pieces) - 1)
        ELSE pieces

\* ln.split(":", 1)[1]: what follows the first colon of ln.
RECURSIVE AfterFirstColon(_)
AfterFirstColon(ln) ==
    IF Head(ln) = ":" THEN Tail(ln) ELSE AfterFirstColon(Tail(ln))

\* str.istitle(): upper-case characters only after uncased ones, lower-case
\* characters only after cased ones, and at least one cased character.
RECURSIVE TitleFrom(_, _, _)
TitleFrom(w, prevCased, anyCased) ==
    IF w = <<>> THEN anyCased
    ELSE IF Head(w) \in UpperChars
         THEN ~prevCased /\ TitleFrom(Tail(w), TRUE, TRUE)
         ELSE IF Head(w) \in LowerChars
              THEN prevCased /\ TitleFrom(Tail(w), TRUE, TRUE)
              ELSE TitleFrom(Tail(w), FALSE, anyCased)

IsTitle(w) == TitleFrom(w, FALSE, FALSE)

\* The order in which Python iterates a set is arbitrary: one fixed order.
RECURSIVE SetToSeq(_)
SetToSeq(S) ==
    IF S = {} THEN <<>>
    ELSE LET x == CHOOSE y \in S : TRUE IN <<x>> \o SetToSeq(S \ {x})

Range(seq) == {seq[i] : i \in DOMAIN seq}

\* ------------------------------------------------- resume text heuristics
\* "skills:" (line 127)
SkillsMarker == <<"s", "k", "i", "l", "l", "s", ":">>

\* ",.()" (line 138)
TokenPunctuation == {",", ".", "(", ")"}

\* list(tokens)[:8]
TokenCap == 8

\* len(w) > 2 and len(w) < 20
MinTokenLen == 2
MaxTokenLen == 20

\* [s.strip() for s in parts.split(",") if s.strip()]
CommaList(parts) ==
    LET pieces == Split(parts, ",")
        trimmed == [i \in DOMAIN pieces |-> Strip(pieces[i], Whitespace)]
    IN  SelectSeq(trimmed, LAMBDA s : s # <<>>)

\* The heuristic of lines 133-139: the title-cased words, punctuation
\* stripped, as a set, at most TokenCap of them.
TitleTokens(text) ==
    LET words == SplitWords(text)
        tokens == {Strip(Strip(words[i], Whitespace), TokenPunctuation) :
                     i \in {j \in DOMAIN words :
                              /\ IsTitle(words[j])
                              /\ Len(words[j]) > MinTokenLen
                              /\ Len(words[j]) < MaxTokenLen}}
        listed == SetToSeq(tokens)
    IN  SubSeq(listed, 1, IF Len(listed) < TokenCap THEN Len(listed) ELSE TokenCap)

RECURSIVE FirstSkillsLine(_)
FirstSkillsLine(lines) ==
    IF lines = <<>> THEN <<>>
    ELSE IF IsSubstr(SkillsMarker, Lower(Head(lines)))
         THEN <<Head(lines)>>
         ELSE FirstSkillsLine(Tail(lines))

extract_skills_from_text(text) ==
    LET found == FirstSkillsLine(SplitLines(text))
    IN  IF found # <<>>
        THEN CommaList(AfterFirstColon(found[1]))
        ELSE TitleTokens(text)

\* The order of resumes.items(): the order in which the folder was listed.
FileOrder(resumes) == SelectSeq(<<"r1.txt", "r2.txt">>, LAMBDA f : f \in DOMAIN resumes)

\* Lines 141-147 without text.lower().
MatchCaseSensitive(skill, resumes) ==
    SelectSeq(FileOrder(resumes), LAMBDA fname : IsSubstr(Lower(skill), resumes[fname]))

match_resumes_for_skill(skill, resumes) ==
    LET skill_lower == Lower(skill)
    IN  SelectSeq(FileOrder(resumes),
                  LAMBDA fname : IsSubstr(skill_lower, Lower(resumes[fname])))

\* Lines 384-388: the files whose extracted tokens, lower-cased, hold ms.
FallbackHit(skill, text) ==
    LET extracted == extract_skills_from_text(text)
    IN  skill \in {Lower(extracted[i]) : i \in DOMAIN extracted}

fallback_suggestions(skill, resumes) ==
    SelectSeq(FileOrder(resumes), LAMBDA fname : FallbackHit(skill, resumes[fname]))

\* ------------------------------------------------- Dashboard: aggregation
Ratings == {"High", "Medium", "Low"}

\* Lines 351-353 for one response, from its i-th selected skill on.
RECURSIVE AddSelected(_, _, _)
AddSelected(map, r, i) ==
    IF i > Len(r.skills_selected) THEN map
    ELSE LET skl == r.skills_selected[i]
             rating == Get(r.skill_ratings, skl, "Low")
         IN  AddSelected(Put(map, skl, Append(Get(map, skl, <<>>), rating)), r, i + 1)

\* Lines 349-353: skill -> the ratings given to it, in the order of arrival.
RECURSIVE AggregateFrom(_, _)
AggregateFrom(map, resp) ==
    IF resp = <<>> THEN map
    ELSE AggregateFrom(AddSelected(map, Head(resp), 1), Tail(resp))

SkillMap(resp) == AggregateFrom(EmptyDict, resp)

Required(skills) == {Lower(skills[i]) : i \in DOMAIN skills}

\* Line 367 without lower().
AvailableAsTyped(map) == DOMAIN map

\* Line 367
Available(map) == {Lower(skl) : skl \in DOMAIN map}

\* Lines 366-368
Missing(skills, map) == Required(skills) \ Available(map)

\* ------------------------------------------------------ Dashboard: inputs
\* Skill names an admin may have typed, in several letter cases.
SkillNames == {<<"A">>, <<"a">>, <<"Sigma">>, <<"A", "a">>, <<"A", "Sigma">>}

SurveySkillLists == UNION {[1..k -> SkillNames] : k \in 1..MaxSkills}

\* What st.multiselect can return: the options at a set of positions.
Selections(options) ==
    {SelectSeq(options, LAMBDA o : o \in keep) : keep \in SUBSET Range(options)}

\* A stored response: the skills selected, all rated alike or none rated (a
\* rating missing from skill_ratings is read as "Low", line 352).
StoredResponses(options) ==
    UNION {{[skills_selected |-> sel, skill_ratings |-> rt] :
              rt \in {EmptyDict} \cup {[skl \in Range(sel) |-> r] : r \in {"High", "Medium"}}} :
           sel \in Selections(options)}

ResponseLists(options) ==
    UNION {[1..k -> StoredResponses(options)] : k \in 0..MaxResponses}

\* The characters of a resume besides a leading "Skills:" heading.
BodyAlphabet == {"A", "a", "Sigma", ",", " ", "NL"}

SkillsHeading == <<"S", "k", "i", "l", "l", "s", ":">>

ResumeTexts(n) ==
    {h \o b : h \in {<<>>, SkillsHeading}, b \in Strs(BodyAlphabet, n)}

\* The resumes folder: no file, one file, or two files of MaxBody free
\* characters together.
Corpora ==
    {EmptyDict}
    \cup {Put(EmptyDict, "r1.txt", t) : t \in ResumeTexts(MaxBody)}
    \cup UNION {{Put(Put(EmptyDict, "r1.txt", t1), "r2.txt", t2) :
                    t1 \in ResumeTexts(n), t2 \in ResumeTexts(MaxBody - n)} :
                 n \in 0..MaxBody}

\* --------------------------------------------------------------- datastore
TopKeys == {"surveys", "responses", "assignments"}

\* The file data.json: absent, not JSON, or holding a document.
MissingFile == [state |-> "missing", doc |-> EmptyDict]

CorruptFile == [state |-> "corrupt", doc |-> EmptyDict]

\* Lines 68-75 returning a complete document instead of {}.
LoadCompleting(f) ==
    IF f.state = "ok" THEN f.doc ELSE [k \in {"surveys", "responses", "assignments"} |-> EmptyDict]

\* Lines 68-75
load_datafile(f) == IF f.state = "ok" THEN f.doc ELSE EmptyDict

save_datafile(payload) == [state |-> "ok", doc |-> payload]

\* Lines 84-92 of ensure_data_structure: the document with its missing
\* top-level keys added.
EnsureKeys(d) ==
    SetDefault(SetDefault(SetDefault(d, "surveys", EmptyDict),
                          "responses", EmptyDict),
               "assignments", EmptyDict)

Surveys(d) == Get(d, "surveys", EmptyDict)

Responses(d) == Get(d, "responses", EmptyDict)

Assignments(d) == Get(d, "assignments", EmptyDict)

\* --------------------------------------------------------- Admin: creation
\* str(uuid.uuid4())[:8]: any 8-character token, two of them here.
Sids == {"1f0c9a2e", "b7d4e310"}

NoProcess == "<none>"

\* The select box: nothing (an empty catalog) or a process name.
ProcChoices == {NoProcess, "Order to Cash"}

InputAlphabet == {"a", ",", " "}

SkillInputs == Strs(InputAlphabet, MaxInputLen)

\* What the sessions type in the skills box: nothing, blanks and commas, one
\* skill with blanks around it.
TypedSkills == {<<>>, <<" ", ",">>, <<" ", "a", " ">>}

UserEmails == <<"ann@corp", "bob@corp">>

\* The multiselect of line 200: nobody, or everybody.
AssigneeChoices == {<<>>, UserEmails}

\* Line 191 without its two strip() calls.
ParseSkillsUntrimmed(skills_input) ==
    SelectSeq(Split(skills_input, ","), LAMBDA piece : piece # <<>>)

\* Line 191
ParseSkills(skills_input) == CommaList(skills_input)

\* Lines 203-206: the error shown, if any.
CreateError(proc_choice, skills) ==
    IF proc_choice = NoProcess THEN "Please select a process."
    ELSE IF skills = <<>> THEN "Please provide at least one skill."
    ELSE "ok"

\* Lines 209-216 (process_id and the questions are carried along unread).
Survey(sid, proc_choice, skills) ==
    [survey_id |-> sid, process |-> proc_choice, skills |-> skills, creator |-> "admin"]

\* Lines 218-219
CreateDoc(d, sid, survey, selected_emails) ==
    LET d1 == SetDefault(d, "surveys", EmptyDict)
        d2 == Put(d1, "surveys", Put(d1["surveys"], sid, survey))
        d3 == SetDefault(d2, "assignments", EmptyDict)
    IN  Put(d3, "assignments", Put(d3["assignments"], sid, selected_emails))

\* --------------------------------------------------------- Admin: deletion
\* d.get(key, {}).pop(sid, None)
PopIn(d, key, sid) ==
    IF key \in DOMAIN d THEN Put(d, key, Pop(d[key], sid)) ELSE d

\* Line 237 raises KeyError on a document without "surveys".
DeleteRaises(d) == "surveys" \notin DOMAIN d

\* Lines 237-240 without line 238.
DeleteDocKeepsAssignment(d, sid) ==
    PopIn(Put(d, "surveys", Pop(d["surveys"], sid)), "responses", sid)

\* Lines 237-240 without line 240.
DeleteDocKeepsResponses(d, sid) ==
    PopIn(Put(d, "surveys", Pop(d["surveys"], sid)), "assignments", sid)

\* Lines 237-240
DeleteDoc(d, sid) ==
    PopIn(PopIn(Put(d, "surveys", Pop(d["surveys"], sid)), "assignments", sid),
          "responses", sid)

\* ------------------------------------------------------- User: submission
\* Lines 264-267: the surveys whose assignment list holds the email.
Assigned(all_data, email) ==
    {sid \in DOMAIN Assignments(all_data) : email \in Range(Assignments(all_data)[sid])}

\* Line 267 raises KeyError when an assigned id has no survey.
LookupRaises(all_data, email) ==
    \E sid \in Assigned(all_data, email) : sid \notin DOMAIN Surveys(all_data)

\* Lines 295-303 (name, answers and comments are carried along unread).
Entry(email, chosen_skills, ts) ==
    [respondent_email |-> email,
     skills_selected |-> chosen_skills,
     skill_ratings |-> [skl \in Range(chosen_skills) |-> "High"],
     timestamp |-> ts]

\* Lines 293-304
SubmitDoc(d, sid, entry) ==
    LET d1 == SetDefault(d, "responses", EmptyDict)
        d2 == Put(d1, "responses", SetDefault(d1["responses"], sid, <<>>))
    IN  Put(d2, "responses", Put(d2["responses"], sid, Append(d2["responses"][sid], entry)))

\* ================================================================== state
VARIABLES
    file,          \* data.json
    pc,            \* each browser session's place in its script run
    snap,          \* the document the session's handler loaded (d, data, all_data)
    sidv,          \* the handler's sid
    form,          \* the handler's other locals: widget values, survey, entry
    out,           \* session_state's "submitted" flag, as the timestamp of the response saved
    seen,          \* history: the responses others saved since the session's pending load
    now,           \* the clock behind pd.Timestamp.now()
    subs,          \* history: submissions saved since each survey was created
    prev,          \* history: the last completed operation and the file before it
    dpc,           \* the Dashboard run's place
    survey_skills, \* survey.get("skills", [])
    resp_list,     \* responses.get(sel_sid, [])
    skill_map,
    missing,
    ms,            \* the missing skill of the loop at line 375
    resume_texts,
    matches,
    suggestions

storeVars == <<file, pc, snap, sidv, form, out, seen, now>>

dashVars == <<dpc, survey_skills, resp_list, skill_map, missing, ms, resume_texts,
              matches, suggestions>>

vars == <<file, pc, snap, sidv, form, out, seen, now, subs, prev, dpc, survey_skills,
          resp_list, skill_map, missing, ms, resume_texts, matches, suggestions>>

Sessions == {"s1", "s2"}

NoSid == "-"

NoOut == 0

\* The places at which a session holds a loaded document it will save.
Pending == {"ensure", "create", "delete", "submit"}

\* Session s saves a response: its timestamp is recorded for every other
\* session that holds a loaded document it has yet to save.
Noted(s, ts) ==
    [t \in Sessions |->
        IF t = s THEN {}
        ELSE IF pc[t] \in Pending THEN seen[t] \cup {ts} ELSE seen[t]]

\* Session s saves something else.
Finished(s) == [seen EXCEPT ![s] = {}]

\* The session's run ends; a submission leaves its flag (line 306).
Done(s, msg, ts) == [out EXCEPT ![s] = ts]

StoreInit ==
    /\ file \in {MissingFile, CorruptFile}
    /\ pc = [s \in Sessions |-> "start"]
    /\ snap = [s \in Sessions |-> EmptyDict]
    /\ sidv = [s \in Sessions |-> NoSid]
    /\ form = [s \in Sessions |-> <<>>]
    /\ out = [s \in Sessions |-> NoOut]
    /\ seen = [s \in Sessions |-> {}]
    /\ now = 0

NoEntry == [respondent_email |-> "", skills_selected |-> <<>>,
            skill_ratings |-> EmptyDict, timestamp |-> 0]

NoPrev == [op |-> "none", sid |-> NoSid, file |-> MissingFile,
           proc_choice |-> NoProcess, skills_input |-> <<>>, entry |-> NoEntry]

SerialInit ==
    /\ subs = [sid \in Sids |-> 0]
    /\ prev = NoPrev

DashInit ==
    /\ dpc = "idle"
    /\ survey_skills = <<>>
    /\ resp_list = <<>>
    /\ skill_map = EmptyDict
    /\ missing = {}
    /\ ms = <<>>
    /\ resume_texts = EmptyDict
    /\ matches = <<>>
    /\ suggestions = <<>>

Init == StoreInit /\ SerialInit /\ DashInit

\* ------------------------------------------------------ every script run
\* Line 164, ensure_data_structure: load (line 82); a complete document is
\* returned as it is, an incomplete one is completed and saved (EnsureSave).
EnsureLoad(s) ==
    /\ UNCHANGED <<subs, prev, dashVars>>
    /\ pc[s] = "start"
    /\ LET d == load_datafile(file)
       IN  IF EnsureKeys(d) = d
           THEN /\ pc' = [pc EXCEPT ![s] = "ready"]
                /\ snap' = [snap EXCEPT ![s] = EmptyDict]
           ELSE /\ pc' = [pc EXCEPT ![s] = "ensure"]
                /\ snap' = [snap EXCEPT ![s] = d]
    /\ out' = [out EXCEPT ![s] = NoOut]
    /\ seen' = [seen EXCEPT ![s] = {}]
    /\ UNCHANGED <<file, sidv, form, now>>

\* Lines 84-94
EnsureSave(s) ==
    /\ UNCHANGED <<subs, prev, dashVars>>
    /\ pc[s] = "ensure"
    /\ file' = save_datafile(EnsureKeys(snap[s]))
    /\ seen' = Finished(s)
    /\ pc' = [pc EXCEPT ![s] = "ready"]
    /\ snap' = [snap EXCEPT ![s] = EmptyDict]
    /\ UNCHANGED <<sidv, form, out, now>>

\* ------------------------------------------------------------- Admin view
\* Lines 182-206: "Create & Save Survey" is clicked with widget values that
\* are refused.
CreateReject(s) ==
    /\ UNCHANGED <<subs, prev, dashVars>>
    /\ pc[s] = "ready"
    /\ \E proc_choice \in ProcChoices, skills_input \in TypedSkills :
          LET err == CreateError(proc_choice, ParseSkills(skills_input))
          IN  /\ err # "ok"
              /\ out' = Done(s, err, 0)
    /\ pc' = [pc EXCEPT ![s] = "start"]
    /\ UNCHANGED <<file, snap, sidv, form, seen, now>>

\* Lines 182-217: it is clicked with values that pass; the id is drawn, the
\* survey built, the document loaded.
CreateLoad(s) ==
    /\ UNCHANGED <<subs, prev, dashVars>>
    /\ pc[s] = "ready"
    /\ \E proc_choice \in ProcChoices, skills_input \in TypedSkills,
          sid \in Sids, selected_emails \in AssigneeChoices :
          LET skills == ParseSkills(skills_input)
          IN  /\ CreateError(proc_choice, skills) = "ok"
              /\ sidv' = [sidv EXCEPT ![s] = sid]
              /\ form' = [form EXCEPT ![s] =
                            [survey |-> Survey(sid, proc_choice, skills),
                             selected_emails |-> selected_emails]]
    /\ snap' = [snap EXCEPT ![s] = load_datafile(file)]
    /\ seen' = [seen EXCEPT ![s] = {}]
    /\ pc' = [pc EXCEPT ![s] = "create"]
    /\ now < MaxClock
    /\ now' = now + 1
    /\ UNCHANGED <<file, out>>

\* Lines 218-222
CreateSave(s) ==
    /\ UNCHANGED <<subs, prev, dashVars>>
    /\ pc[s] = "create"
    /\ file' = save_datafile(CreateDoc(snap[s], sidv[s], form[s].survey,
                                       form[s].selected_emails))
    /\ seen' = Finished(s)
    /\ out' = Done(s, "Survey created", 0)
    /\ pc' = [pc EXCEPT ![s] = "start"]
    /\ snap' = [snap EXCEPT ![s] = EmptyDict]
    /\ sidv' = [sidv EXCEPT ![s] = NoSid]
    /\ form' = [form EXCEPT ![s] = <<>>]
    /\ UNCHANGED now

\* Lines 226-235: the surveys are listed and "Delete sid" was clicked for one.
AdminList(s) ==
    /\ UNCHANGED <<subs, prev, dashVars>>
    /\ pc[s] = "ready"
    /\ \E sid \in DOMAIN Surveys(load_datafile(file)) :
          sidv' = [sidv EXCEPT ![s] = sid]
    /\ pc' = [pc EXCEPT ![s] = "admin_list"]
    /\ now < MaxClock
    /\ now' = now + 1
    /\ UNCHANGED <<file, snap, form, out, seen>>

\* Line 236
DeleteLoad(s) ==
    /\ UNCHANGED <<subs, prev, dashVars>>
    /\ pc[s] = "admin_list"
    /\ snap' = [snap EXCEPT ![s] = load_datafile(file)]
    /\ seen' = [seen EXCEPT ![s] = {}]
    /\ pc' = [pc EXCEPT ![s] = "delete"]
    /\ UNCHANGED <<file, sidv, form, out, now>>

\* Lines 237-242
DeleteSave(s) ==
    /\ UNCHANGED <<subs, prev, dashVars>>
    /\ pc[s] = "delete"
    /\ IF DeleteRaises(snap[s])
       THEN /\ out' = Done(s, "KeyError", 0)
            /\ UNCHANGED <<file, seen>>
       ELSE /\ file' = save_datafile(DeleteDoc(snap[s], sidv[s]))
            /\ seen' = Finished(s)
            /\ out' = Done(s, "deleted", 0)
    /\ pc' = [pc EXCEPT ![s] = "start"]
    /\ snap' = [snap EXCEPT ![s] = EmptyDict]
    /\ sidv' = [sidv EXCEPT ![s] = NoSid]
    /\ UNCHANGED <<form, now>>

\* -------------------------------------------------------------- User view
\* Lines 256-273: the user's assigned surveys are looked up; the form of one
\* of them is the one that was submitted.
UserLoad(s) ==
    /\ UNCHANGED <<subs, prev, dashVars>>
    /\ pc[s] = "ready"
    /\ \E email \in Range(UserEmails) :
          LET all_data == load_datafile(file)
          IN  IF LookupRaises(all_data, email)
              THEN /\ out' = Done(s, "KeyError", 0)
                   /\ pc' = [pc EXCEPT ![s] = "start"]
                   /\ UNCHANGED <<sidv, form>>
              ELSE IF Assigned(all_data, email) = {}
              THEN /\ out' = Done(s, "No surveys assigned to you.", 0)
                   /\ pc' = [pc EXCEPT ![s] = "start"]
                   /\ UNCHANGED <<sidv, form>>
              ELSE \E sid \in Assigned(all_data, email) :
                      /\ sidv' = [sidv EXCEPT ![s] = sid]
                      /\ form' = [form EXCEPT ![s] =
                                    [email |-> email,
                                     skill_options |-> all_data["surveys"][sid].skills]]
                      /\ pc' = [pc EXCEPT ![s] = "user"]
                      /\ out' = out
    /\ UNCHANGED <<file, snap, seen, now>>

\* Lines 290-303: the document is loaded and the entry built.
SubmitLoad(s) ==
    /\ UNCHANGED <<subs, prev, dashVars>>
    /\ pc[s] = "user"
    /\ now < MaxClock
    /\ now' = now + 1
    /\ snap' = [snap EXCEPT ![s] = load_datafile(file)]
    /\ seen' = [seen EXCEPT ![s] = {}]
    /\ \E chosen_skills \in Selections(form[s].skill_options) :
          form' = [form EXCEPT ![s] = Entry(form[s].email, chosen_skills, now + 1)]
    /\ pc' = [pc EXCEPT ![s] = "submit"]
    /\ UNCHANGED <<file, sidv, out>>

\* Lines 304-307 appending to the document as it is at the time of the save.
SubmitSaveReloading(s) ==
    /\ UNCHANGED <<subs, prev, dashVars>>
    /\ pc[s] = "submit"
    /\ file' = save_datafile(SubmitDoc(load_datafile(file), sidv[s], form[s]))
    /\ seen' = Noted(s, form[s].timestamp)
    /\ out' = Done(s, "Response saved", form[s].timestamp)
    /\ pc' = [pc EXCEPT ![s] = "start"]
    /\ snap' = [snap EXCEPT ![s] = EmptyDict]
    /\ sidv' = [sidv EXCEPT ![s] = NoSid]
    /\ form' = [form EXCEPT ![s] = <<>>]
    /\ UNCHANGED now

\* Lines 304-307
SubmitSave(s) ==
    /\ UNCHANGED <<subs, prev, dashVars>>
    /\ pc[s] = "submit"
    /\ file' = save_datafile(SubmitDoc(snap[s], sidv[s], form[s]))
    /\ seen' = Noted(s, form[s].timestamp)
    /\ out' = Done(s, "Response saved", form[s].timestamp)
    /\ pc' = [pc EXCEPT ![s] = "start"]
    /\ snap' = [snap EXCEPT ![s] = EmptyDict]
    /\ sidv' = [sidv EXCEPT ![s] = NoSid]
    /\ form' = [form EXCEPT ![s] = <<>>]
    /\ UNCHANGED now

Next ==
    \E s \in Sessions :
        \/ EnsureLoad(s)
        \/ EnsureSave(s)
        \/ CreateReject(s)
        \/ CreateLoad(s)
        \/ CreateSave(s)
        \/ AdminList(s)
        \/ DeleteLoad(s)
        \/ DeleteSave(s)
        \/ UserLoad(s)
        \/ SubmitLoad(s)
        \/ SubmitSave(s)

Spec == Init /\ [][Next]_vars

\* ================================================= one session, run by run
\* ensure_data_structure as one step on the file (lines 81-95).
ensure_data_structure(f) ==
    LET d == load_datafile(f)
    IN  IF EnsureKeys(d) = d THEN f ELSE save_datafile(EnsureKeys(d))

sessionVars == <<pc, snap, sidv, form, out, seen>>

\* A button can be clicked once a page has been rendered.
Rendered == prev.op # "none"

\* The first script run: nothing is clicked.
SerialOpen ==
    /\ ~Rendered
    /\ file' = ensure_data_structure(file)
    /\ prev' = [NoPrev EXCEPT !.op = "open", !.file = file]
    /\ UNCHANGED <<now, subs, sessionVars, dashVars>>

\* A run in which "Create & Save Survey" is clicked (lines 164, 182-222).
SerialCreate ==
    /\ Rendered
    /\ now < MaxRuns
    /\ now' = now + 1
    /\ \E proc_choice \in ProcChoices, skills_input \in SkillInputs,
          sid \in Sids, selected_emails \in AssigneeChoices :
          LET f == ensure_data_structure(file)
              skills == ParseSkills(skills_input)
          IN  IF CreateError(proc_choice, skills) # "ok"
              THEN /\ file' = f
                   /\ prev' = [NoPrev EXCEPT !.op = "refused", !.file = file,
                                             !.proc_choice = proc_choice,
                                             !.skills_input = skills_input]
                   /\ subs' = subs
              ELSE /\ file' = save_datafile(
                                 CreateDoc(load_datafile(f), sid,
                                           Survey(sid, proc_choice, skills),
                                           selected_emails))
                   /\ prev' = [NoPrev EXCEPT !.op = "create", !.file = file,
                                             !.sid = sid,
                                             !.proc_choice = proc_choice,
                                             !.skills_input = skills_input]
                   /\ subs' = [subs EXCEPT ![sid] = 0]
    /\ UNCHANGED <<sessionVars, dashVars>>

\* A run in which "Delete sid" is clicked (lines 164, 226-242).
SerialDelete ==
    /\ Rendered
    /\ now < MaxRuns
    /\ now' = now + 1
    /\ LET f == ensure_data_structure(file)
       IN  \E sid \in DOMAIN Surveys(load_datafile(f)) :
              /\ file' = IF DeleteRaises(load_datafile(f)) THEN f
                         ELSE save_datafile(DeleteDoc(load_datafile(f), sid))
              /\ prev' = [NoPrev EXCEPT !.op = "delete", !.file = file, !.sid = sid]
    /\ UNCHANGED <<subs, sessionVars, dashVars>>

\* A run in which "Submit Survey" is clicked (lines 164, 256-307).
SerialSubmit ==
    /\ Rendered
    /\ now < MaxRuns
    /\ now' = now + 1
    /\ LET f == ensure_data_structure(file)
           all_data == load_datafile(f)
       IN  \E email \in Range(UserEmails) :
              /\ ~LookupRaises(all_data, email)
              /\ \E sid \in Assigned(all_data, email) :
                   \E chosen_skills \in Selections(all_data["surveys"][sid].skills) :
                      LET entry == Entry(email, chosen_skills, now + 1)
                      IN  /\ file' = save_datafile(SubmitDoc(load_datafile(f), sid, entry))
                          /\ prev' = [NoPrev EXCEPT !.op = "submit", !.file = file,
                                                    !.sid = sid, !.entry = entry]
                          /\ subs' = [subs EXCEPT ![sid] = subs[sid] + 1]
    /\ UNCHANGED <<sessionVars, dashVars>>

SerialNext == SerialOpen \/ SerialCreate \/ SerialDelete \/ SerialSubmit

SpecSerial == Init /\ [][SerialNext]_vars

\* ============================================================== Dashboard
\* Lines 322-337: a survey is selected; its skills and responses are read.
DashLoad ==
    /\ dpc = "idle"
    /\ \E skills \in SurveySkillLists :
          /\ survey_skills' = skills
          /\ resp_list' \in ResponseLists(skills)
    /\ dpc' = "loaded"
    /\ UNCHANGED <<skill_map, missing, ms, resume_texts, matches, suggestions>>
    /\ UNCHANGED <<storeVars, subs, prev>>

\* Lines 349-353
Aggregate ==
    /\ dpc = "loaded"
    /\ skill_map' = SkillMap(resp_list)
    /\ dpc' = "aggregated"
    /\ UNCHANGED <<survey_skills, resp_list, missing, ms, resume_texts, matches, suggestions>>
    /\ UNCHANGED <<storeVars, subs, prev>>

\* Lines 366-369
GapAnalysis ==
    /\ dpc = "aggregated"
    /\ missing' = Missing(survey_skills, skill_map)
    /\ dpc' = "gap"
    /\ UNCHANGED <<survey_skills, resp_list, skill_map, ms, resume_texts, matches, suggestions>>
    /\ UNCHANGED <<storeVars, subs, prev>>

\* Line 375: the loop takes a missing skill (the survey and its responses
\* are not read again).
NextMissing ==
    /\ dpc = "gap"
    /\ \E m \in missing : ms' = m
    /\ dpc' = "skill"
    /\ survey_skills' = <<>>
    /\ resp_list' = <<>>
    /\ skill_map' = EmptyDict
    /\ missing' = {}
    /\ UNCHANGED <<resume_texts, matches, suggestions>>
    /\ UNCHANGED <<storeVars, subs, prev>>

\* Lines 374-377: the folder is read and the resumes are matched directly.
MatchResumes ==
    /\ dpc = "skill"
    /\ \E corpus \in Corpora :
          /\ resume_texts' = corpus
          /\ matches' = match_resumes_for_skill(ms, corpus)
    /\ dpc' = "matched"
    /\ UNCHANGED <<survey_skills, resp_list, skill_map, missing, ms, suggestions>>
    /\ UNCHANGED <<storeVars, subs, prev>>

\* Lines 382-392: no direct match, so the extracted tokens are tried.
Fallback ==
    /\ dpc = "matched"
    /\ matches = <<>>
    /\ suggestions' = fallback_suggestions(ms, resume_texts)
    /\ dpc' = "fallback"
    /\ UNCHANGED <<survey_skills, resp_list, skill_map, missing, ms, resume_texts, matches>>
    /\ UNCHANGED <<storeVars, subs, prev>>

DashNext == DashLoad \/ Aggregate \/ GapAnalysis \/ NextMissing \/ MatchResumes \/ Fallback

DashStart == Init /\ file = MissingFile

SpecDash == DashStart /\ [][DashNext]_vars

\* ================================================================= claims
Doc == load_datafile(file)

Before == load_datafile(prev.file)

\* The timestamps of the responses a document holds.
Stamps(d) ==
    UNION {{Responses(d)[sid][i].timestamp : i \in DOMAIN Responses(d)[sid]} :
           sid \in DOMAIN Responses(d)}

C2_AppendOnly ==
    /\ prev.op = "submit" =>
          /\ prev.sid \in DOMAIN Responses(Doc)
          /\ Responses(Doc)[prev.sid] =
                Append(Get(Responses(Before), prev.sid, <<>>), prev.entry)
    /\ \A sid \in DOMAIN Surveys(Doc) :
          Len(Get(Responses(Doc), sid, <<>>)) = subs[sid]

\* ------------------------------------------------------------------- C3
\* C3: every key of responses and every key of assignments of the persisted
\* document is the id of a survey in surveys.
C3_KeysAreSurveys ==
    /\ DOMAIN Responses(Doc) \subseteq DOMAIN Surveys(Doc)
    /\ DOMAIN Assignments(Doc) \subseteq DOMAIN Surveys(Doc)

\* ------------------------------------------------------------------- C4
\* C4: the id of a survey created alone is not a key of the surveys loaded
\* for the creation; surveys and assignments each gain exactly one key and
\* every survey and assignment stored before is unchanged.
C4_NeverReplaces ==
    prev.op = "create" =>
        /\ prev.sid \notin DOMAIN Surveys(Before)
        /\ Cardinality(DOMAIN Surveys(Doc)) = Cardinality(DOMAIN Surveys(Before)) + 1
        /\ Cardinality(DOMAIN Assignments(Doc)) =
              Cardinality(DOMAIN Assignments(Before)) + 1
        /\ \A sid \in DOMAIN Surveys(Before) :
              sid \in DOMAIN Surveys(Doc) /\ Surveys(Doc)[sid] = Surveys(Before)[sid]
        /\ \A sid \in DOMAIN Assignments(Before) :
              /\ sid \in DOMAIN Assignments(Doc)
              /\ Assignments(Doc)[sid] = Assignments(Before)[sid]

\* ------------------------------------------------------------------- C5
\* No character of the skills box is part of a skill: blanks and commas only.
NoSkillTyped(skills_input) ==
    \A i \in DOMAIN skills_input : skills_input[i] \in Whitespace \cup {","}

\* C5: a creation request with no process selected, or with a skills box
\* that holds no skill once split and trimmed, is refused with an error and
\* the persisted file after it is the file before it.
C5_RefusedNoSave ==
    (/\ prev.op \in {"create", "refused"}
     /\ prev.proc_choice = NoProcess \/ NoSkillTyped(prev.skills_input)) =>
        /\ prev.op = "refused"
        /\ file = prev.file

\* A request with a process and a skills box of blanks and commas has been
\* refused while the file holds a survey.
C5_Witness ==
    /\ prev.op = "refused"
    /\ prev.proc_choice # NoProcess
    /\ prev.skills_input # <<>>
    /\ DOMAIN Surveys(Doc) # {}

\* ------------------------------------------------------------------- C6
\* Session s loads the file in this step.
LoadStep(s) == pc[s] \notin Pending /\ pc'[s] \in Pending

CompleteEmpty == [k \in TopKeys |-> EmptyDict]

\* C6 as stated: load returns the persisted document when the file parses,
\* and otherwise a document with surveys, responses and assignments all
\* present as empty maps.
C6_LoadIsComplete ==
    [][\A s \in Sessions :
          LoadStep(s) =>
             snap'[s] = IF file.state = "ok" THEN file.doc ELSE CompleteEmpty]_vars

\* C6 amended: load returns the persisted document when the file parses, and
\* otherwise the empty mapping, with none of the three keys; the three empty
\* maps are added by ensure_data_structure, which saves the completed
\* document at the start of the script run.
C6_LoadThenEnsure ==
    [][\A s \in Sessions :
          /\ LoadStep(s) =>
                /\ snap'[s] = IF file.state = "ok" THEN file.doc ELSE EmptyDict
                /\ file.state # "ok" => DOMAIN snap'[s] = {}
          /\ (pc[s] = "ensure" /\ pc'[s] = "ready") =>
                /\ file'.state = "ok"
                /\ TopKeys \subseteq DOMAIN file'.doc
                /\ snap[s] = EmptyDict => file'.doc = CompleteEmpty]_vars

\* A session has loaded an unparsable file and holds the empty mapping.
C6_Witness ==
    \E s \in Sessions :
        /\ pc[s] = "ensure"
        /\ file.state = "corrupt"
        /\ snap[s] = EmptyDict

\* ------------------------------------------------------------------- C7
\* C7: after a deletion of sid run alone, sid is a key of none of surveys,
\* assignments and responses, and each of the three maps is otherwise what
\* it was.
C7_DeleteFrame ==
    prev.op = "delete" =>
        /\ prev.sid \notin DOMAIN Surveys(Doc)
        /\ prev.sid \notin DOMAIN Assignments(Doc)
        /\ prev.sid \notin DOMAIN Responses(Doc)
        /\ \A key \in TopKeys :
              /\ DOMAIN Get(Doc, key, EmptyDict) =
                    DOMAIN Get(Before, key, EmptyDict) \ {prev.sid}
              /\ \A sid \in DOMAIN Get(Doc, key, EmptyDict) :
                    Doc[key][sid] = Before[key][sid]

\* A survey with responses has been deleted while another survey stays.
C7_Witness ==
    /\ prev.op = "delete"
    /\ prev.sid \in DOMAIN Responses(Before)
    /\ Responses(Before)[prev.sid] # <<>>
    /\ DOMAIN Surveys(Doc) # {}

\* ------------------------------------------------------------------- C8
\* The skills some response of the list selected.
SelectedBySomeone(resp) ==
    UNION {Range(resp[i].skills_selected) : i \in DOMAIN resp}

\* C8: the missing set is the lower-cased survey skills without the
\* lower-cased skills some response selected; so a selected skill is never
\* missing, rated or not, and with no response every survey skill is.
C8_MissingIsDifference ==
    dpc = "gap" =>
        /\ missing = {Lower(survey_skills[i]) : i \in DOMAIN survey_skills}
                        \ {Lower(skl) : skl \in SelectedBySomeone(resp_list)}
        /\ \A skl \in SelectedBySomeone(resp_list) : Lower(skl) \notin missing
        /\ resp_list = <<>> =>
              missing = {Lower(survey_skills[i]) : i \in DOMAIN survey_skills}

\* A skill was selected without a rating, and another skill is missing.
C8_Witness ==
    /\ dpc = "gap"
    /\ missing # {}
    /\ \E i \in DOMAIN resp_list :
          /\ resp_list[i].skills_selected # <<>>
          /\ resp_list[i].skill_ratings = EmptyDict

\* ------------------------------------------------------------------- C9
\* C9: the persisted document's assignments and surveys have the same keys,
\* so the User view's lookup of the survey of an assignment raises for no
\* user.
C9_SameKeys ==
    /\ DOMAIN Assignments(Doc) = DOMAIN Surveys(Doc)
    /\ \A email \in Range(UserEmails) : ~LookupRaises(Doc, email)

\* The file holds an assigned survey with a response, and a session is in
\* the middle of deleting a survey.
C9_Witness ==
    /\ \E sid \in DOMAIN Assignments(Doc) :
          /\ Assignments(Doc)[sid] # <<>>
          /\ sid \in DOMAIN Responses(Doc)
          /\ Responses(Doc)[sid] # <<>>
    /\ \E s \in Sessions : pc[s] = "delete"

\* ------------------------------------------------------------------ C10
HasSigma(text) == "Sigma" \in Range(text)

\* C10 as stated: a resume the fallback would select for the missing skill
\* is selected by the direct match; so a fallback computed after an empty
\* direct match is empty.
C10_FallbackWithinDirect ==
    (dpc \in {"matched", "fallback"} /\ ms # <<>>) =>
        /\ \A fname \in DOMAIN resume_texts :
              FallbackHit(ms, resume_texts[fname]) => fname \in Range(matches)
        /\ dpc = "fallback" => suggestions = <<>>

\* C10 amended: the same for the resumes that hold no capital sigma.
C10_FallbackWithinDirectNoSigma ==
    (dpc \in {"matched", "fallback"} /\ ms # <<>>) =>
        /\ \A fname \in DOMAIN resume_texts :
              (~HasSigma(resume_texts[fname]) /\ FallbackHit(ms, resume_texts[fname]))
                 => fname \in Range(matches)
        /\ dpc = "fallback" =>
              \A i \in DOMAIN suggestions : HasSigma(resume_texts[suggestions[i]])

\* A resume without capital sigma is selected by both matches, the skill
\* being found by the title-case heuristic.
C10_Witness ==
    /\ dpc = "matched"
    /\ \E fname \in DOMAIN resume_texts :
          /\ ~HasSigma(resume_texts[fname])
          /\ FirstSkillsLine(SplitLines(resume_texts[fname])) = <<>>
          /\ FallbackHit(ms, resume_texts[fname])
          /\ fname \in Range(matches)

====
